---------------------------- MODULE Spec2Model ----------------------------
(***************************************************************************)
(* cu2qu (Lib/cu2qu.py): conversion of the cubic bezier segments of font   *)
(* contours to quadratic splines.                                          *)
(*                                                                         *)
(* Numbers.  The program computes with Python floats.  The model computes  *)
(* the same expressions, in the same order, over exact rationals <<n, d>>  *)
(* (d > 0, lowest terms); rounding is not modelled.  A distance is kept as *)
(* its square (hypot is monotone in it), as a fraction of two unbounded    *)
(* naturals, so that max and <= are decided exactly.                       *)
(*                                                                         *)
(* The numeric definitions are functions, f[x], not operators: a function  *)
(* is applied to the value of its argument, as a Python function is.       *)
(***************************************************************************)
EXTENDS Integers, Sequences, FiniteSets, TLC

(***************************************************************************)
(* Unbounded naturals: little-endian digit sequences, no leading zero.     *)
(***************************************************************************)
Base == 10000

Big == Seq(Nat)

BigOfNat[k \in Nat] ==
    IF k = 0 THEN <<>> ELSE <<k % Base>> \o BigOfNat[k \div Base]

BigAddC[a \in Big, b \in Big, c \in Nat] ==
    IF a = <<>> /\ b = <<>>
    THEN BigOfNat[c]
    ELSE LET x == IF a = <<>> THEN 0 ELSE a[1]
             y == IF b = <<>> THEN 0 ELSE b[1]
         IN  <<(x + y + c) % Base>>
             \o BigAddC[IF a = <<>> THEN a ELSE Tail(a),
                        IF b = <<>> THEN b ELSE Tail(b),
                        (x + y + c) \div Base]

BigAdd[a \in Big, b \in Big] == BigAddC[a, b, 0]

BigMulDigit[a \in Big, m \in Nat, c \in Nat] ==
    IF a = <<>>
    THEN BigOfNat[c]
    ELSE <<(a[1] * m + c) % Base>>
         \o BigMulDigit[Tail(a), m, (a[1] * m + c) \div Base]

\* <<0>> \o a, the product of a and Base.
BigShift[a \in Big] == IF a = <<>> THEN a ELSE <<0>> \o a

BigMul[a \in Big, b \in Big] ==
    IF a = <<>> \/ b = <<>>
    THEN <<>>
    ELSE BigAdd[IF b[1] = 0 THEN <<>> ELSE BigMulDigit[a, b[1], 0],
                BigShift[BigMul[a, Tail(b)]]]

BigLeqAt[a \in Big, b \in Big, k \in Nat] ==
    IF k = 0 THEN TRUE
    ELSE IF a[k] # b[k] THEN a[k] < b[k]
    ELSE BigLeqAt[a, b, k - 1]

BigLeq[a \in Big, b \in Big] ==
    IF Len(a) # Len(b) THEN Len(a) < Len(b) ELSE BigLeqAt[a, b, Len(a)]

(***************************************************************************)
(* Exact rationals, the model of the float values.                         *)
(***************************************************************************)
Rat == Int \X Int

Abs[k \in Int] == IF k < 0 THEN -k ELSE k

Gcd[a \in Nat, b \in Nat] == IF b = 0 THEN a ELSE Gcd[b, a % b]

\* n/d for d # 0 and g the greatest common divisor of n and d: lowest terms,
\* the denominator positive.
RatioBy[n \in Int, d \in Int, g \in Nat] ==
    IF d < 0 THEN <<(-n) \div g, (-d) \div g>> ELSE <<n \div g, d \div g>>

Ratio[n \in Int, d \in Int] == RatioBy[n, d, Gcd[Abs[n], Abs[d]]]

\* float(i) of an integer i.
Float[i \in Int] == <<i, 1>>

Zero == <<0, 1>>
One == <<1, 1>>

\* a + b over the common denominator m.
RAddOver[a \in Rat, b \in Rat, m \in Nat] ==
    Ratio[a[1] * (m \div a[2]) + b[1] * (m \div b[2]), m]

RAdd[a \in Rat, b \in Rat] ==
    RAddOver[a, b, (a[2] \div Gcd[a[2], b[2]]) * b[2]]

RNeg[a \in Rat] == <<-a[1], a[2]>>

RSub[a \in Rat, b \in Rat] == RAdd[a, RNeg[b]]

\* a * b with g and h cancelled crosswise, which leaves lowest terms.
RMulBy[a \in Rat, b \in Rat, g \in Nat, h \in Nat] ==
    <<(a[1] \div g) * (b[1] \div h), (a[2] \div h) * (b[2] \div g)>>

RMul[a \in Rat, b \in Rat] ==
    RMulBy[a, b, Gcd[Abs[a[1]], b[2]], Gcd[Abs[b[1]], a[2]]]

\* a / b for b # 0 (the program raises ZeroDivisionError at b = 0.0).
RDiv[a \in Rat, b \in Rat] == RMul[a, Ratio[b[2], b[1]]]

\* int(x): truncation toward zero.
int[a \in Rat] == IF a[1] >= 0 THEN a[1] \div a[2] ELSE -((-a[1]) \div a[2])

(***************************************************************************)
(* A squared distance: [n |-> Big, d |-> Big], the value n / d.            *)
(***************************************************************************)
Sq == [n : Big, d : Big]

SqZero == [n |-> <<>>, d |-> <<1>>]

BigSquare[a \in Big] == BigMul[a, a]

SqOf[a \in Rat] ==
    [n |-> BigSquare[BigOfNat[Abs[a[1]]]], d |-> BigSquare[BigOfNat[a[2]]]]

SqAdd[x \in Sq, y \in Sq] ==
    [n |-> BigAdd[BigMul[x.n, y.d], BigMul[y.n, x.d]], d |-> BigMul[x.d, y.d]]

SqLeq[x \in Sq, y \in Sq] == BigLeq[BigMul[x.n, y.d], BigMul[y.n, x.d]]

\* max(error, e) as Python computes it: the first argument unless e is greater.
SqMax[error \in Sq, e \in Sq] == IF SqLeq[e, error] THEN error ELSE e

\* error <= max_err, for an error >= 0 kept as its square.
ErrLeq[error \in Sq, max_err \in Rat] ==
    max_err[1] >= 0 /\ SqLeq[error, SqOf[max_err]]

(***************************************************************************)
(* class Point                                                             *)
(***************************************************************************)
Pt == Rat \X Rat
Pts == Seq(Pt)

\* Point([x, y]) of integer coordinates.
Point[p \in Int \X Int] == <<Float[p[1]], Float[p[2]]>>

PointAdd[a \in Pt, b \in Pt] == <<RAdd[a[1], b[1]], RAdd[a[2], b[2]]>>

PointSub[a \in Pt, b \in Pt] == <<RSub[a[1], b[1]], RSub[a[2], b[2]]>>

PointMul[a \in Pt, k \in Rat] == <<RMul[a[1], k], RMul[a[2], k]>>

\* The square of Point.dist.
dist[a \in Pt, b \in Pt] == SqAdd[SqOf[RSub[a[1], b[1]]], SqOf[RSub[a[2], b[2]]]]

dot[a \in Pt, b \in Pt] == RAdd[RMul[a[1], b[1]], RMul[a[2], b[2]]]

\* lerp on two floats.
lerp[p1 \in Rat, p2 \in Rat, t \in Rat] == RAdd[RMul[p1, RSub[One, t]], RMul[p2, t]]

\* lerp on two Points.
lerpPoint[p1 \in Pt, p2 \in Pt, t \in Rat] ==
    PointAdd[PointMul[p1, RSub[One, t]], PointMul[p2, t]]

quadratic_bezier_at[p \in Pts, t \in Rat] ==
    << lerp[lerp[p[1][1], p[2][1], t], lerp[p[2][1], p[3][1], t], t],
       lerp[lerp[p[1][2], p[2][2], t], lerp[p[2][2], p[3][2], t], t] >>

cubic_bezier_at[p \in Pts, t \in Rat] ==
    << lerp[lerp[lerp[p[1][1], p[2][1], t], lerp[p[2][1], p[3][1], t], t],
            lerp[lerp[p[2][1], p[3][1], t], lerp[p[3][1], p[4][1], t], t], t],
       lerp[lerp[lerp[p[1][2], p[2][2], t], lerp[p[2][2], p[3][2], t], t],
            lerp[lerp[p[2][2], p[3][2], t], lerp[p[3][2], p[4][2], t], t], t] >>

cubic_approx[p \in Pts, t \in Rat] ==
    <<p[1],
      lerpPoint[lerpPoint[p[1], p[2], <<3, 2>>], lerpPoint[p[4], p[3], <<3, 2>>], t],
      p[4]>>

\* None, where a spline is expected: no points, and false in a condition.
None == <<>>

\* Python truth of a returned spline: None is false, a tuple of points true.
Truthy(s) == s # None

\* The exception a run ended with, if any.
NoError == "none"
ValueError == "ValueError"
TypeError == "TypeError"

\* Normal with the sign of its first coordinate lost.
Normal_unsigned(ab) == <<ab[2], ab[1]>>

\* calc_intersect: the vector p = (-ab[1], ab[0]), normal to ab = b - a.
Normal(ab) == <<RNeg[ab[2]], ab[1]>>

\* The divisor of calc_intersect, p.dot(cd).
IntersectDivisor[p \in Pts] ==
    dot[Normal(PointSub[p[2], p[1]]), PointSub[p[4], p[3]]]

\* calc_intersect raises ValueError: the division raised ZeroDivisionError.
calc_intersect_raises[p \in Pts] == IntersectDivisor[p] = Zero

\* h of calc_intersect.
IntersectH[p \in Pts] ==
    RDiv[dot[Normal(PointSub[p[2], p[1]]), PointSub[p[1], p[3]]],
         IntersectDivisor[p]]

\* What calc_intersect returns when it does not raise: c + cd * h.
calc_intersect[p \in Pts] ==
    PointAdd[p[3], PointMul[PointSub[p[4], p[3]], IntersectH[p]]]

\* bezierTools.calcCubicParameters(pt1, pt2, pt3, pt4): <<a, b, c, d>>, the
\* power basis of the cubic.
CubicC[p \in Pts] == PointMul[PointSub[p[2], p[1]], <<3, 1>>]
CubicB[p \in Pts] == PointSub[PointMul[PointSub[p[3], p[2]], <<3, 1>>], CubicC[p]]
CubicA[p \in Pts] == PointSub[PointSub[PointSub[p[4], p[1]], CubicC[p]], CubicB[p]]

calcCubicParameters[p \in Pts] == <<CubicA[p], CubicB[p], CubicC[p], p[1]>>

\* bezierTools.calcCubicPoints(a, b, c, d).
CubicPt2[q \in Pts] == PointAdd[PointMul[q[3], <<1, 3>>], q[4]]

calcCubicPoints[q \in Pts] ==
    << q[4],
       CubicPt2[q],
       PointAdd[PointMul[PointAdd[q[2], q[3]], <<1, 3>>], CubicPt2[q]],
       PointAdd[PointAdd[PointAdd[q[1], q[4]], q[3]], q[2]] >>

\* bezierTools._splitCubicAtT: the power basis of the piece of the cubic
\* q = <<a, b, c, d>> between t1 and t2.
SplitPiece[q \in Pts, t1 \in Rat, t2 \in Rat] ==
    << \* a1 = a * delta**3
       PointMul[q[1], RMul[RMul[RSub[t2, t1], RSub[t2, t1]], RSub[t2, t1]]],
       \* b1 = (3*a*t1 + b) * delta**2
       PointMul[PointAdd[PointMul[q[1], RMul[<<3, 1>>, t1]], q[2]],
                RMul[RSub[t2, t1], RSub[t2, t1]]],
       \* c1 = (2*b*t1 + c + 3*a*t1**2) * delta
       PointMul[PointAdd[PointAdd[PointMul[q[2], RMul[<<2, 1>>, t1]], q[3]],
                         PointMul[q[1], RMul[<<3, 1>>, RMul[t1, t1]]]],
                RSub[t2, t1]],
       \* d1 = a*t1**3 + b*t1**2 + c*t1 + d
       PointAdd[PointAdd[PointAdd[PointMul[q[1], RMul[RMul[t1, t1], t1]],
                                  PointMul[q[2], RMul[t1, t1]]],
                         PointMul[q[3], t1]],
                q[4]] >>

\* bezierTools.splitCubicAtT(p0, p1, p2, p3, 1/n, ..., (n-1)/n): piece i of
\* the n pieces (i in 1..n).
splitCubicAtT[p \in Pts, n \in Nat, i \in Nat] ==
    calcCubicPoints[SplitPiece[calcCubicParameters[p], Ratio[i - 1, n], Ratio[i, n]]]

\* cubic_approx_spline with p1 for the control point where the control
\* vectors do not intersect.
cubic_approx_spline_p1(p, n) ==
    IF n = 1
    THEN <<p[1], IF calc_intersect_raises[p] THEN p[2] ELSE calc_intersect[p], p[4]>>
    ELSE <<p[1]>>
         \o [i \in 1..n |-> cubic_approx[splitCubicAtT[p, n, i],
                                         Ratio[i - 1, n - 1]][2]]
         \o <<p[4]>>

cubic_approx_spline(p, n) ==
    IF n = 1
    THEN IF calc_intersect_raises[p]
         THEN None
         ELSE <<p[1], calc_intersect[p], p[4]>>
    ELSE <<p[1]>>
         \o [i \in 1..n |-> cubic_approx[splitCubicAtT[p, n, i],
                                         Ratio[i - 1, n - 1]][2]]
         \o <<p[4]>>

TOTAL_STEPS == 20

\* The points compared in iteration j of the inner loop of curve_spline_dist.
SampleDist[bezier \in Pts, segment \in Pts, i \in Nat, n \in Nat, steps \in Nat, j \in Nat] ==
    dist[cubic_bezier_at[bezier, RDiv[RAdd[Ratio[j, steps], Float[i - 1]], Float[n]]],
         quadratic_bezier_at[segment, Ratio[j, steps]]]

\* The inner loop of curve_spline_dist, "for j in range(steps)", from
\* iteration j on, entered with error.
SampleLoop[bezier \in Pts, segment \in Pts, i \in Nat, n \in Nat, steps \in Nat, j \in Nat, error \in Sq] ==
    IF j >= steps
    THEN error
    ELSE SampleLoop[bezier, segment, i, n, steps, j + 1,
                    SqMax[error, SampleDist[bezier, segment, i, n, steps, j]]]

\* The segment the outer loop builds in iteration i, after the segment of
\* the iteration before.  spline[k + 1] here is the program's spline[k].
NextSegment[spline \in Pts, n \in Nat, i \in Nat, segment \in Pts] ==
    << IF i = 1 THEN spline[1] ELSE segment[3],
       spline[i + 1],
       IF i = n THEN spline[i + 2]
       ELSE lerpPoint[spline[i + 1], spline[i + 2], <<1, 2>>] >>

\* The outer loop of curve_spline_dist, "for i in range(1, n + 1)", from
\* iteration i on; segment is the segment of the iteration before, error the
\* error so far.
SegmentLoop[bezier \in Pts, spline \in Pts, n \in Nat, steps \in Nat, i \in Nat, segment \in Pts, error \in Sq] ==
    IF i > n
    THEN error
    ELSE SegmentLoop[bezier, spline, n, steps, i + 1,
                     NextSegment[spline, n, i, segment],
                     SampleLoop[bezier, NextSegment[spline, n, i, segment],
                                i, n, steps, 0, error]]

\* curve_spline_dist with the quotient TOTAL_STEPS / n rounded up.
curve_spline_dist_ceil(bezier, spline) ==
    SegmentLoop[bezier, spline, Len(spline) - 2,
                (TOTAL_STEPS + Len(spline) - 3) \div (Len(spline) - 2),
                1, <<>>, SqZero]

\* The square of the program's curve_spline_dist: n = len(spline) - 2 and
\* steps = TOTAL_STEPS / n, the integer quotient.
curve_spline_dist(bezier, spline) ==
    SegmentLoop[bezier, spline, Len(spline) - 2,
                TOTAL_STEPS \div (Len(spline) - 2), 1, <<>>, SqZero]

(***************************************************************************)
(* The tests of the two search loops.                                      *)
(***************************************************************************)
\* The test of convert_to_quadratic with < for <=.
spline_accepted_strict(p, spline, max_err) ==
    /\ Truthy(spline)
    /\ max_err[1] >= 0
    /\ ~SqLeq[SqOf[max_err], curve_spline_dist(p, spline)]

\* convert_to_quadratic: "spline and curve_spline_dist(p, spline) <= max_err".
spline_accepted(p, spline, max_err) ==
    Truthy(spline) /\ ErrLeq[curve_spline_dist(p, spline), max_err]

\* max(curve_spline_dist(c, s) for c, s in zip(curves, splines)), from pair k
\* on, best the largest before it.
max_dist[curves \in Seq(Pts), splines \in Seq(Pts), k \in Nat, best \in Sq] ==
    IF k > Len(curves)
    THEN best
    ELSE max_dist[curves, splines, k + 1,
                  IF k = 1 THEN curve_spline_dist(curves[k], splines[k])
                  ELSE SqMax[best, curve_spline_dist(curves[k], splines[k])]]

\* convert_collection_to_quadratic: "all(splines) and max(...) <= max_err".
splines_accepted(curves, splines, max_err) ==
    /\ \A i \in DOMAIN splines : Truthy(splines[i])
    /\ ErrLeq[max_dist[curves, splines, 1, SqZero], max_err]

(***************************************************************************)
(* Values of the contour model (RoboFab) as the program reads and builds   *)
(* them: a segment has a type, points (x, y) and a smooth flag; a contour  *)
(* is a sequence of segments, a glyph of contours, a font of glyphs.       *)
(***************************************************************************)
RSegment(type, points, smooth) ==
    [type |-> type, points |-> points, smooth |-> smooth]

\* seq[k] as Python indexes it: from 0, a negative k from the end.
PyIndex(seq, k) == IF k < 0 THEN seq[Len(seq) + k + 1] ELSE seq[k + 1]

\* str(k) for k >= 0.
Digits == <<"0", "1", "2", "3", "4", "5", "6", "7", "8", "9">>

RECURSIVE str(_)
str(k) == IF k < 10 THEN Digits[k + 1] ELSE str(k \div 10) \o Digits[(k % 10) + 1]

\* zip(*args) raises ValueError: the arguments are not of one length (no
\* argument at all included).
zip_raises(args) == Cardinality({Len(args[k]) : k \in DOMAIN args}) # 1

\* The built-in zip, _zip(*args): element k of every argument, for each k up
\* to the length of the shortest.
RECURSIVE MinLen(_, _)
MinLen(args, k) ==
    IF k = Len(args) THEN Len(args[k])
    ELSE IF Len(args[k]) < MinLen(args, k + 1) THEN Len(args[k])
    ELSE MinLen(args, k + 1)

zip(args) ==
    [k \in 1..(IF args = <<>> THEN 0 ELSE MinLen(args, 1)) |->
        [i \in DOMAIN args |-> args[i][k]]]

\* replace_segments on a RoboFab contour: every segment removed, then one
\* appended for each of the given ones.
replace_segments(segs) ==
    [k \in DOMAIN segs |->
        RSegment(segs[k].type,
                 [j \in DOMAIN segs[k].points |->
                     <<segs[k].points[j][1], segs[k].points[j][2]>>],
                 segs[k].smooth)]

\* as_quadratic with the type of the segment kept.
as_quadratic_same_type(segment, points) ==
    RSegment(segment.type,
             [j \in DOMAIN points |-> <<int[points[j][1]], int[points[j][2]]>>],
             segment.smooth)

\* as_quadratic on a RoboFab segment.
as_quadratic(segment, points) ==
    RSegment("qcurve",
             [j \in DOMAIN points |-> <<int[points[j][1]], int[points[j][2]]>>],
             segment.smooth)

(***************************************************************************)
(* class FontCollection and its subclasses.  A collection is modelled by   *)
(* its children; a SegmentCollection also keeps its instances and type.    *)
(* X_raises(args) says that constructing X(args) raises ValueError.        *)
(***************************************************************************)
\* A SegmentCollection built with the built-in zip: no length is checked.
SegmentCollection_unchecked(segs) == FALSE

SegmentCollection_raises(segs) ==
    zip_raises([i \in DOMAIN segs |-> segs[i].points])

SegmentCollection(segs) ==
    [instances |-> segs,
     points    |-> zip([i \in DOMAIN segs |-> segs[i].points]),
     type      |-> segs[1].type]

ContourCollection_raises(contours) ==
    \/ zip_raises(contours)
    \/ \E k \in DOMAIN zip(contours) : SegmentCollection_raises(zip(contours)[k])

ContourCollection(contours) ==
    [k \in DOMAIN zip(contours) |-> SegmentCollection(zip(contours)[k])]

GlyphCollection_raises(glyphs) ==
    \/ zip_raises(glyphs)
    \/ \E k \in DOMAIN zip(glyphs) : ContourCollection_raises(zip(glyphs)[k])

GlyphCollection(glyphs) ==
    [k \in DOMAIN zip(glyphs) |-> ContourCollection(zip(glyphs)[k])]

FontCollection_raises(fs) ==
    \/ zip_raises(fs)
    \/ \E k \in DOMAIN zip(fs) : GlyphCollection_raises(zip(fs)[k])

FontCollection(fs) ==
    [k \in DOMAIN zip(fs) |-> GlyphCollection(zip(fs)[k])]

\* SegmentCollection.as_quadratic(new_points), when its construction does
\* not raise.
collection_as_quadratic(segment, points) ==
    SegmentCollection([i \in DOMAIN segment.instances |->
                          as_quadratic(segment.instances[i], points[i])])

collection_as_quadratic_raises(segment, points) ==
    \/ zip_raises(<<segment.instances, points>>)
    \/ SegmentCollection_raises([i \in DOMAIN segment.instances |->
                                    as_quadratic(segment.instances[i], points[i])])

(***************************************************************************)
(* The state of a run of fonts_to_quadratic.                               *)
(***************************************************************************)
VARIABLES
    fonts,        \* the fonts, converted in place
    compatible,   \* the arguments of fonts_to_quadratic
    max_n,
    max_err,
    runs,         \* how many times the caller converts the fonts
    run,          \* the number of the run under way
    fonts0,       \* the fonts as the run under way found them
    collection,   \* the FontCollection of a compatible run
    report,
    pc,           \* where the run is
    raised,       \* the exception the run ended with
    font_i,       \* the loops of fonts_to_quadratic and
    glyph_i,      \*   glyph_curves_to_quadratic (from 1)
    contour_i,
    segment_id,   \* i of glyph_curves_to_quadratic (from 0)
    segments,     \* the new segments of the contour under way
    p,            \* convert_to_quadratic: the cubic, n, the spline
    spline,
    curves,       \* convert_collection_to_quadratic: the cubics, the splines
    splines,
    n

inputs == <<compatible, max_n, max_err, runs>>
loops == <<font_i, glyph_i, contour_i, segment_id, segments>>
search == <<p, spline, curves, splines, n>>
vars == <<fonts, inputs, run, fonts0, collection, report, pc, raised, loops, search>>

NoReport == [k \in {} |-> 0]

\* The loop variables font, glyph, contour of the run.
Font == IF compatible THEN collection ELSE fonts[font_i]
Glyph == Font[glyph_i]
Contour == Glyph[contour_i]

\* for font in fonts: the number of fonts iterated.
NFonts == IF compatible THEN 1 ELSE Len(fonts)

(***************************************************************************)
(* fonts_to_quadratic, to its loop over the fonts: the report is created;  *)
(* a compatible run builds the FontCollection, which raises ValueError     *)
(* when the fonts differ in shape.                                         *)
(***************************************************************************)
FontsToQuadratic ==
    /\ pc = "start"
    /\ report' = NoReport
    /\ font_i' = 1
    /\ IF compatible /\ FontCollection_raises(fonts)
       THEN /\ pc' = "raised"
            /\ raised' = ValueError
            /\ UNCHANGED collection
       ELSE /\ pc' = "font"
            /\ collection' = IF compatible THEN FontCollection(fonts) ELSE collection
            /\ UNCHANGED raised
    /\ UNCHANGED <<fonts, inputs, run, fonts0, glyph_i, contour_i, segment_id,
                   segments, search>>

\* "for font in fonts": the next font, or the end of the run.
ForFont ==
    /\ pc = "font"
    /\ IF font_i > NFonts
       THEN pc' = "done" /\ UNCHANGED glyph_i
       ELSE pc' = "glyph" /\ glyph_i' = 1
    /\ UNCHANGED <<fonts, inputs, run, fonts0, collection, report, raised,
                   font_i, contour_i, segment_id, segments, search>>

\* "for glyph in font": glyph_curves_to_quadratic on the next glyph, or the
\* next font.
ForGlyph ==
    /\ pc = "glyph"
    /\ IF glyph_i > Len(Font)
       THEN pc' = "font" /\ font_i' = font_i + 1 /\ UNCHANGED contour_i
       ELSE pc' = "contour" /\ contour_i' = 1 /\ UNCHANGED font_i
    /\ UNCHANGED <<fonts, inputs, run, fonts0, collection, report, raised,
                   glyph_i, segment_id, segments, search>>

\* glyph_curves_to_quadratic, "for contour in glyph": the next contour with
\* an empty list of new segments, or the next glyph.
ForContour ==
    /\ pc = "contour"
    /\ IF contour_i > Len(Glyph)
       THEN /\ pc' = "glyph"
            /\ glyph_i' = glyph_i + 1
            /\ UNCHANGED <<segment_id, segments>>
       ELSE /\ pc' = "segment"
            /\ segments' = <<>>
            /\ segment_id' = 0
            /\ UNCHANGED glyph_i
    /\ UNCHANGED <<fonts, inputs, run, fonts0, collection, report, raised,
                   font_i, contour_i, search>>

\* glyph_curves_to_quadratic, a segment that is no curve: kept as it is.
PassThrough ==
    /\ pc = "segment"
    /\ segment_id < Len(Contour)
    /\ PyIndex(Contour, segment_id).type # "curve"
    /\ segments' = Append(segments, PyIndex(Contour, segment_id))
    /\ segment_id' = segment_id + 1
    /\ UNCHANGED <<fonts, inputs, run, fonts0, collection, report, pc, raised,
                   font_i, glyph_i, contour_i, search>>

\* cubic_segment_to_quadratic on a curve, to the search loop it calls: the
\* cubic starts at the last point of the segment before (Python's
\* contour[-1] for the first segment) and the search starts before n = 1.
CubicSegmentToQuadratic ==
    /\ pc = "segment"
    /\ segment_id < Len(Contour)
    /\ PyIndex(Contour, segment_id).type = "curve"
    /\ LET segment      == PyIndex(Contour, segment_id)
           prev_segment == PyIndex(Contour, segment_id - 1)
           p0           == PyIndex(prev_segment.points, -1)
           p1           == PyIndex(segment.points, 0)
           p2           == PyIndex(segment.points, 1)
           p3           == PyIndex(segment.points, 2)
       IN  IF compatible
           THEN /\ curves' = [i \in DOMAIN p0 |->
                                <<Point[p0[i]], Point[p1[i]], Point[p2[i]], Point[p3[i]]>>]
                /\ UNCHANGED p
           ELSE /\ p' = <<Point[p0], Point[p1], Point[p2], Point[p3]>>
                /\ UNCHANGED curves
    /\ n' = 0
    /\ spline' = None
    /\ splines' = <<>>
    /\ pc' = "convert"
    /\ UNCHANGED <<fonts, inputs, run, fonts0, collection, report, raised, loops>>

\* convert_to_quadratic, one iteration of "for n in range(1, max_n + 1)":
\* the loop ends at the break or after n = max_n.
ConvertToQuadratic ==
    /\ pc = "convert"
    /\ ~compatible
    /\ n < max_n
    /\ n' = n + 1
    /\ spline' = cubic_approx_spline(p, n + 1)
    /\ pc' = IF spline_accepted(p, spline', max_err) \/ n + 1 = max_n
             THEN "converted" ELSE "convert"
    /\ UNCHANGED <<fonts, inputs, run, fonts0, collection, report, raised,
                   loops, p, curves, splines>>

\* convert_collection_to_quadratic, one iteration of its loop.
ConvertCollectionToQuadratic ==
    /\ pc = "convert"
    /\ compatible
    /\ n < max_n
    /\ n' = n + 1
    /\ splines' = [i \in DOMAIN curves |-> cubic_approx_spline(curves[i], n + 1)]
    /\ pc' = IF splines_accepted(curves, splines', max_err) \/ n + 1 = max_n
             THEN "converted" ELSE "convert"
    /\ UNCHANGED <<fonts, inputs, run, fonts0, collection, report, raised,
                   loops, p, curves, spline>>

\* report[n] = report.get(n, 0) + 1
Count(rep, key) ==
    IF key \in DOMAIN rep
    THEN [rep EXCEPT ![key] = @ + 1]
    ELSE [k \in DOMAIN rep \cup {key} |-> IF k = key THEN 1 ELSE rep[k]]

\* cubic_segment_to_quadratic after the search: the key of the report is
\* str(len(points)) of the spline (of the first one of a collection), taken
\* before its first point is dropped.  points[0][0] or p[1:] on None raises
\* TypeError, before the report is written.
CubicSegmentConverted ==
    /\ pc = "converted"
    /\ LET segment == PyIndex(Contour, segment_id)
           points  == IF compatible THEN splines ELSE <<spline>>
           key     == str(Len(points[1]))
           tails   == [i \in DOMAIN points |-> Tail(points[i])]
       IN  IF \E i \in DOMAIN points : points[i] = None
           THEN /\ pc' = "raised"
                /\ raised' = TypeError
                /\ UNCHANGED <<report, segments, segment_id>>
           ELSE /\ report' = Count(report, key)
                /\ IF compatible /\ collection_as_quadratic_raises(segment, tails)
                   THEN /\ pc' = "raised"
                        /\ raised' = ValueError
                        /\ UNCHANGED <<segments, segment_id>>
                   ELSE /\ pc' = "segment"
                        /\ segments' =
                             Append(segments,
                                    IF compatible
                                    THEN collection_as_quadratic(segment, tails)
                                    ELSE as_quadratic(segment, tails[1]))
                        /\ segment_id' = segment_id + 1
                        /\ UNCHANGED raised
    /\ UNCHANGED <<fonts, inputs, run, fonts0, collection, font_i, glyph_i,
                   contour_i, search>>

\* glyph_curves_to_quadratic, after the last segment of a contour:
\* replace_segments(contour, segments).  On a ContourCollection it zips the
\* instances of the new segments (ValueError when there is none) and
\* replaces the segments of the contour of every font.
ReplaceSegments ==
    /\ pc = "segment"
    /\ segment_id >= Len(Contour)
    /\ IF compatible
       THEN LET instances == [k \in DOMAIN segments |-> segments[k].instances]
            IN  IF zip_raises(instances)
                THEN /\ pc' = "raised"
                     /\ raised' = ValueError
                     /\ UNCHANGED <<fonts, contour_i>>
                ELSE /\ fonts' = [i \in DOMAIN fonts |->
                                    [fonts[i] EXCEPT ![glyph_i][contour_i] =
                                        replace_segments(zip(instances)[i])]]
                     /\ pc' = "contour"
                     /\ contour_i' = contour_i + 1
                     /\ UNCHANGED raised
       ELSE /\ fonts' = [fonts EXCEPT ![font_i][glyph_i][contour_i] =
                            replace_segments(segments)]
            /\ pc' = "contour"
            /\ contour_i' = contour_i + 1
            /\ UNCHANGED raised
    /\ UNCHANGED <<inputs, run, fonts0, collection, report, font_i, glyph_i,
                   segment_id, segments, search>>

\* The caller converts the converted fonts again, with the same arguments:
\* a new call, whose locals start afresh.
Rerun ==
    /\ pc = "done"
    /\ run < runs
    /\ run' = run + 1
    /\ fonts0' = fonts
    /\ pc' = "start"
    /\ collection' = <<>>
    /\ font_i' = 0
    /\ glyph_i' = 0
    /\ contour_i' = 0
    /\ segment_id' = 0
    /\ segments' = <<>>
    /\ p' = <<>>
    /\ spline' = None
    /\ curves' = <<>>
    /\ splines' = <<>>
    /\ n' = 0
    /\ UNCHANGED <<fonts, inputs, report, raised>>

\* One run of fonts_to_quadratic.
Convert ==
    \/ FontsToQuadratic
    \/ ForFont
    \/ ForGlyph
    \/ ForContour
    \/ PassThrough
    \/ CubicSegmentToQuadratic
    \/ ConvertToQuadratic
    \/ ConvertCollectionToQuadratic
    \/ CubicSegmentConverted
    \/ ReplaceSegments

Next == Convert \/ Rerun

(***************************************************************************)
(* Inputs.                                                                 *)
(***************************************************************************)
MaxCoord == 1
MaxN == 3
MaxDeepN == 22

Line(pt) == RSegment("line", <<pt>>, FALSE)
Curve(p1, p2, p3) == RSegment("curve", <<p1, p2, p3>>, TRUE)
QCurve(pts) == RSegment("qcurve", pts, TRUE)

\* A glyph of one contour: a line to c[1], then the cubic c.
GlyphOf(c) == << <<Line(c[1]), Curve(c[2], c[3], c[4])>> >>

\* A font of one such glyph.
OutlineFont(c) == <<GlyphOf(c)>>

\* The cubic of the straight line from (0, 0) to (3, 0); an arch, which is a
\* quadratic curve; a bend and a hook.
StraightLine == <<(<<0, 0>>), <<1, 0>>, <<2, 0>>, <<3, 0>>>>
Arch == <<(<<0, 0>>), <<1, 1>>, <<2, 1>>, <<3, 0>>>>
Bend == <<(<<0, 0>>), <<0, 1>>, <<1, 2>>, <<3, 2>>>>
Hook == <<(<<0, 0>>), <<0, 3>>, <<3, 3>>, <<4, 0>>>>

\* The cubics from (0, 0) to (3, 0) with p1 on the grid and p2 above (2, 0).
Grid == (0..MaxCoord) \X (0..MaxCoord)

Cubics == {<<(<<0, 0>>), p1, <<2, y>>, <<3, 0>>>> : p1 \in Grid, y \in 0..MaxCoord}

\* max_err: never met, met by an exact fit only, tight, loose, the default.
Never == <<-1, 1>>
Tight == <<1, 10>>
Loose == <<1, 2>>
Default == <<5, 1>>

\* The state before a run, on the given inputs.
Start(fs, c, mn, me, r) ==
    /\ fonts = fs
    /\ compatible = c
    /\ max_n = mn
    /\ max_err = me
    /\ runs = r
    /\ run = 1
    /\ fonts0 = fs
    /\ collection = <<>>
    /\ report = NoReport
    /\ pc = "start"
    /\ raised = NoError
    /\ font_i = 0
    /\ glyph_i = 0
    /\ contour_i = 0
    /\ segment_id = 0
    /\ segments = <<>>
    /\ p = <<>>
    /\ spline = None
    /\ curves = <<>>
    /\ splines = <<>>
    /\ n = 0

(***************************************************************************)
(* One cubic, alone or along with the cubic of a second font, converted    *)
(* once.                                                                   *)
(***************************************************************************)
InitCurve ==
    \E c \in Cubics, more \in {<<>>, <<OutlineFont(StraightLine)>>, <<OutlineFont(Arch)>>},
       mn \in 1..MaxN, me \in {Never, Zero, Tight, Loose} :
        Start(<<OutlineFont(c)>> \o more, more # <<>>, mn, me, 1)

SpecCurve == InitCurve /\ [][Convert]_vars

(***************************************************************************)
(* A search that may pass n = TOTAL_STEPS.                                 *)
(***************************************************************************)
InitDeep ==
    \E c \in {StraightLine, Arch, Bend, Hook}, comp \in BOOLEAN,
       mn \in (TOTAL_STEPS + 1)..MaxDeepN, me \in {Never, Zero, Tight} :
        Start(<<OutlineFont(c)>>, comp, mn, me, 1)

SpecDeep == InitDeep /\ [][Convert]_vars

(***************************************************************************)
(* Fonts of three glyphs, alone or along with a second font that has the   *)
(* shape of the first or differs from it at one level, converted twice.    *)
(***************************************************************************)
\* Three glyphs of one contour with one cubic each, none of them degenerate.
Three == <<GlyphOf(Arch), GlyphOf(Bend), GlyphOf(Hook)>>

\* A degenerate cubic; a contour that starts with its cubic and a contour
\* without one; a bend.
Mixed ==
    << GlyphOf(StraightLine),
       << <<Curve(Arch[2], Arch[3], Arch[4]), Line(Arch[1])>>,
          <<Line(<<0, 0>>), QCurve(<<(<<1, 1>>), <<2, 0>>>>)>> >>,
       GlyphOf(Bend) >>

\* The font with every coordinate doubled: the same shape, another geometry.
Doubled(font) ==
    [g \in DOMAIN font |->
        [c \in DOMAIN font[g] |->
            [s \in DOMAIN font[g][c] |->
                [font[g][c][s] EXCEPT !.points =
                    [j \in DOMAIN @ |-> <<2 * @[j][1], 2 * @[j][2]>>]]]]]

\* The font without its last glyph; without the contour of its first glyph;
\* without the last segment of that contour; with a point less in that
\* segment, as a qcurve; with that segment as a qcurve of as many points.
LessGlyphs(font) == SubSeq(font, 1, Len(font) - 1)
LessContours(font) == [font EXCEPT ![1] = <<>>]
LessSegments(font) == [font EXCEPT ![1][1] = SubSeq(@, 1, Len(@) - 1)]
LessPoints(font) ==
    [font EXCEPT ![1][1][2] = QCurve(SubSeq(@.points, 1, Len(@.points) - 1))]
Retyped(font) == [font EXCEPT ![1][1][2] = QCurve(@.points)]

FontLists(font) ==
    { <<font>>,
      <<font, Doubled(font)>>,
      <<font, LessGlyphs(font)>>,
      <<font, LessContours(font)>>,
      <<font, LessSegments(font)>>,
      <<font, LessPoints(font)>>,
      <<font, Retyped(font)>>,
      <<Retyped(font), font>> }

Init ==
    \E font \in {Three, Mixed}, comp \in BOOLEAN, mn \in 1..MaxN,
       me \in {Tight, Default} :
        \E fs \in FontLists(font) : Start(fs, comp, mn, me, 2)

Spec == Init /\ [][Next]_vars
(***************************************************************************)
(* What the properties below are stated with.                              *)
(***************************************************************************)
\* The cross product of b - a and d - c.
Cross(a, b, c, d) ==
    RSub[RMul[RSub[b[1], a[1]], RSub[d[2], c[2]]],
         RMul[RSub[b[2], a[2]], RSub[d[1], c[1]]]]

\* The control vectors p1 - p0 and p3 - p2 of the cubic c are parallel.
Parallel(c) == Cross(c[1], c[2], c[3], c[4]) = Zero

\* x lies on the line through a and b.
OnLine(x, a, b) == Cross(a, x, a, b) = Zero

\* s is a spline within e of the cubic c, at the sampled points.
Fits(c, s, e) == s # None /\ SqLeq[curve_spline_dist(c, s), SqOf[e]] /\ e[1] >= 0

\* Every cubic of cs has at k segments a spline within e of it.
GroupFits(cs, k, e) ==
    \A i \in DOMAIN cs : Fits(cs[i], cubic_approx_spline(cs[i], k), e)

\* The spline s starts and ends where the cubic c does.
EndpointsKept(c, s) == s # None /\ s[1] = c[1] /\ s[Len(s)] = c[4]

\* s is <<p0, X, p3>> with X on both tangent lines of the cubic c.
IsTangentIntersection(c, s) ==
    /\ Len(s) = 3
    /\ s[1] = c[1]
    /\ s[3] = c[4]
    /\ OnLine(s[2], c[1], c[2])
    /\ OnLine(s[2], c[3], c[4])

\* The search is at the end of an iteration, or has returned.
Searching == pc \in {"convert", "converted"} /\ n >= 1

\* The shape of a font: the number of points of every segment of every
\* contour of every glyph.
Shape(font) ==
    [g \in DOMAIN font |->
        [c \in DOMAIN font[g] |->
            [s \in DOMAIN font[g][c] |-> Len(font[g][c][s].points)]]]

SameShape(fs) == \A i \in DOMAIN fs : Shape(fs[i]) = Shape(fs[1])

\* The fonts have as many glyphs, contours and segments as each other.
SameSegments(fs) ==
    \A i \in DOMAIN fs :
        /\ Len(fs[i]) = Len(fs[1])
        /\ \A g \in DOMAIN fs[1] :
            /\ Len(fs[i][g]) = Len(fs[1][g])
            /\ \A c \in DOMAIN fs[1][g] : Len(fs[i][g][c]) = Len(fs[1][g][c])

\* The type glyph_curves_to_quadratic reads for segment s of contour c of
\* glyph g of font f at the start of the run: of a collection, the type of
\* the segment of the first font.
TypeRead(f, g, c, s) ==
    IF compatible THEN fonts0[1][g][c][s].type ELSE fonts0[f][g][c][s].type

\* The segments the run reads as curves, one for each conversion.
CurvesRead ==
    UNION { UNION { UNION {
        {<<f, g, c, s>> : s \in {t \in DOMAIN fonts0[f][g][c] :
                                    TypeRead(f, g, c, t) = "curve"}}
        : c \in DOMAIN fonts0[f][g]}
        : g \in DOMAIN fonts0[f]}
        : f \in IF compatible THEN {1} ELSE DOMAIN fonts0}

\* The sum of the counts of a report.
RECURSIVE Total(_, _)
Total(rep, keys) ==
    IF keys = {} THEN 0
    ELSE rep[CHOOSE k \in keys : TRUE]
         + Total(rep, keys \ {CHOOSE k \in keys : TRUE})

(***************************************************************************)
(* C1.  The search returns the spline built at the smallest n of 1..max_n  *)
(* at which every cubic has a spline within max_err, and what was built at *)
(* n = max_n when there is no such n: a returned spline is within max_err, *)
(* or n = max_n.  (SpecCurve)                                              *)
(***************************************************************************)
C1_SmallestAcceptedN ==
    pc = "converted" =>
        /\ n \in 1..max_n
        /\ IF compatible
           THEN /\ splines = [i \in DOMAIN curves |->
                                 cubic_approx_spline(curves[i], n)]
                /\ \A k \in 1..(n - 1) : ~GroupFits(curves, k, max_err)
                /\ GroupFits(curves, n, max_err) \/ n = max_n
           ELSE /\ spline = cubic_approx_spline(p, n)
                /\ \A k \in 1..(n - 1) :
                      ~Fits(p, cubic_approx_spline(p, k), max_err)
                /\ Fits(p, spline, max_err) \/ n = max_n

\* A cubic whose spline of one segment is too far and whose spline of two is
\* returned, with max_n not reached.
C1_Witness ==
    /\ pc = "converted"
    /\ ~compatible
    /\ n = 2
    /\ max_n > 2
    /\ cubic_approx_spline(p, 1) # None
    /\ Fits(p, spline, max_err)

(***************************************************************************)
(* C2.  The splines convert_collection_to_quadratic returns were built at  *)
(* one n, so they all have n + 2 points, and before n = max_n the group is *)
(* only accepted with every member within max_err.  (SpecCurve)            *)
(***************************************************************************)
C2_CommonPointCount ==
    (pc = "converted" /\ compatible) =>
        /\ \A i \in DOMAIN splines : Len(splines[i]) = n + 2
        /\ n < max_n => GroupFits(curves, n, max_err)

(***************************************************************************)
(* C3.  The spline the search returns starts at p0 and ends at p3 of its   *)
(* cubic.  (SpecCurve)                                                     *)
(***************************************************************************)
C3_EndpointsPreserved ==
    pc = "converted" =>
        IF compatible
        THEN \A i \in DOMAIN splines : EndpointsKept(curves[i], splines[i])
        ELSE EndpointsKept(p, spline)

(***************************************************************************)
(* C4.  A search that ends at max_n returns a spline for every cubic, and  *)
(* cubic_segment_to_quadratic does not raise.  (SpecCurve)                 *)
(***************************************************************************)
C4_ExhaustionIsNoFailure ==
    /\ pc = "converted" =>
          IF compatible
          THEN \A i \in DOMAIN splines : splines[i] # None
          ELSE spline # None
    /\ raised # TypeError

(***************************************************************************)
(* C5.  The key cubic_segment_to_quadratic counts a conversion under is    *)
(* the number n of segments of the spline; the counts of a run add up to   *)
(* the number of conversions; three glyphs of one cubic each, all accepted *)
(* at n = 1, give the report {"1": 3}.  (Spec)                             *)
(***************************************************************************)
C5_ReportKeyIsSegmentCount ==
    /\ (pc = "segment" /\ n > 0) => str(n) \in DOMAIN report
    /\ (pc = "done" /\ run = 1) =>
          Total(report, DOMAIN report) = Cardinality(CurvesRead)
    /\ (pc = "done" /\ run = 1 /\ fonts0 = <<Three>> /\ max_err = Default) =>
          report = [k \in {"1"} |-> 3]

(***************************************************************************)
(* C6.  When the fonts of a compatible run differ in shape (in the number  *)
(* of glyphs, of contours of a glyph, of segments of a contour or of       *)
(* points of a segment), the construction of the FontCollection raises     *)
(* ValueError: no curve has been fitted, no contour replaced, nothing      *)
(* reported.  (Spec)                                                       *)
(***************************************************************************)
C6_MismatchRaisesFirst ==
    (compatible /\ run = 1 /\ pc # "start" /\ ~SameShape(fonts0)) =>
        /\ pc = "raised"
        /\ raised = ValueError
        /\ fonts = fonts0
        /\ n = 0
        /\ segments = <<>>
        /\ report = NoReport

\* Raised for two fonts that differ in nothing but the points of a segment.
C6_Witness ==
    /\ pc = "raised"
    /\ raised = ValueError
    /\ compatible
    /\ SameSegments(fonts0)
    /\ ~SameShape(fonts0)

(***************************************************************************)
(* C7.  For a cubic with parallel control vectors cubic_approx_spline      *)
(* returns None at n = 1, and the search, of one cubic or of a group with  *)
(* such a member, does not accept n = 1: it goes on unless max_n is 1.     *)
(* (SpecCurve)                                                             *)
(***************************************************************************)
C7_ParallelAdvances ==
    (Searching /\ n = 1) =>
        IF compatible
        THEN \A i \in DOMAIN curves :
                Parallel(curves[i]) =>
                    splines[i] = None /\ (pc = "convert" \/ max_n = 1)
        ELSE Parallel(p) => spline = None /\ (pc = "convert" \/ max_n = 1)

\* The straight line from (0, 0) to (3, 0): no spline at n = 1, and the
\* search goes on.
C7_Witness ==
    /\ pc = "convert"
    /\ n = 1
    /\ ~compatible
    /\ p = <<Point[StraightLine[1]], Point[StraightLine[2]],
             Point[StraightLine[3]], Point[StraightLine[4]]>>
    /\ spline = None

(***************************************************************************)
(* C8.  For a cubic whose control vectors are not parallel the spline at   *)
(* n = 1 is <<p0, X, p3>> with X on the line through p0 and p1 and on the  *)
(* line through p2 and p3.  (SpecCurve)                                    *)
(***************************************************************************)
C8_TangentIntersection ==
    (Searching /\ n = 1) =>
        IF compatible
        THEN \A i \in DOMAIN curves :
                ~Parallel(curves[i]) =>
                    IsTangentIntersection(curves[i], splines[i])
        ELSE ~Parallel(p) => IsTangentIntersection(p, spline)

\* The arch: its tangents y = x and y = 3 - x meet at (3/2, 3/2).
C8_Witness ==
    /\ Searching
    /\ n = 1
    /\ ~compatible
    /\ p[2] = Point[Arch[2]]
    /\ p[3] = Point[Arch[3]]
    /\ spline = <<p[1], <<(<<3, 2>>), <<3, 2>>>>, p[4]>>

C10_NoSamplePastTotalSteps ==
    /\ (Searching /\ n > TOTAL_STEPS) =>
          IF compatible
          THEN \A i \in DOMAIN curves :
                  curve_spline_dist(curves[i], splines[i]) = SqZero
          ELSE curve_spline_dist(p, spline) = SqZero
    /\ (pc = "converted" /\ max_err[1] >= 0) => n <= TOTAL_STEPS + 1

\* A cubic no spline of up to TOTAL_STEPS segments fits exactly, accepted at
\* TOTAL_STEPS + 1 with max_err = 0 and max_n not reached.
C10_Witness ==
    /\ pc = "converted"
    /\ ~compatible
    /\ max_err = Zero
    /\ n = TOTAL_STEPS + 1
    /\ n < max_n
=============================================================================
